---- MODULE Spec2Model ----
\* Arithmetic-expression AST (Number, Variable, BinaryOperation, FunctionCall),
\* its recursive evaluate(), the CopySyntaxTree visitor and the destructors,
\* modelled from src/lab6_task1_trpo.cpp.
EXTENDS Integers, Sequences, FiniteSets, TLC

\* ---------------------------------------------------------------------------
\* Bounds of the model
\* ---------------------------------------------------------------------------
\* number of constructor calls the caller makes
MaxNodes == 3
\* leaves of the evaluation scenarios range over k/2, k in -MaxHalves..MaxHalves
MaxHalves == 5
\* resolution of the grid sqrt results are rounded to (1/SqrtGrid of the
\* argument's denominator; a double rounds to 53 bits instead)
SqrtGrid == 4

\* ---------------------------------------------------------------------------
\* double: IEEE-754 values as <<class, sign, numerator, denominator>>.
\* Finite values are sign-magnitude rationals in lowest terms (so +0 and -0
\* are distinct); infinities carry a sign; there is one NaN.  Finite results
\* of + - * / are kept exact.
\* ---------------------------------------------------------------------------
RECURSIVE GCD(_, _)
GCD(a, b) == IF b = 0 THEN a ELSE GCD(b, a % b)

Fin(s, n, d) == LET g == GCD(n, d) IN <<"fin", s, n \div g, d \div g>>
Inf(s) == <<"inf", s, 0, 1>>
NaN == <<"nan", 1, 0, 1>>
Zero == Fin(1, 0, 1)
One == Fin(1, 1, 1)

IsNaN(x) == x[1] = "nan"
IsInf(x) == x[1] = "inf"
IsFin(x) == x[1] = "fin"
IsZero(x) == IsFin(x) /\ x[3] = 0
Neg(x) == IF IsNaN(x) THEN x ELSE <<x[1], -x[2], x[3], x[4]>>

\* left_value + right_value
FAdd(x, y) ==
    IF IsNaN(x) \/ IsNaN(y) THEN NaN
    ELSE IF IsInf(x) /\ IsInf(y) THEN (IF x[2] = y[2] THEN x ELSE NaN)
    ELSE IF IsInf(x) THEN x
    ELSE IF IsInf(y) THEN y
    ELSE LET num == x[2] * x[3] * y[4] + y[2] * y[3] * x[4]
             den == x[4] * y[4]
         IN  IF num > 0 THEN Fin(1, num, den)
             ELSE IF num < 0 THEN Fin(-1, -num, den)
             ELSE IF x[2] = -1 /\ y[2] = -1 THEN Fin(-1, 0, 1)
             ELSE Zero

\* left_value - right_value
FSub(x, y) == FAdd(x, Neg(y))

\* left_value * right_value
FMul(x, y) ==
    IF IsNaN(x) \/ IsNaN(y) THEN NaN
    ELSE IF (IsInf(x) /\ IsZero(y)) \/ (IsZero(x) /\ IsInf(y)) THEN NaN
    ELSE IF IsInf(x) \/ IsInf(y) THEN Inf(x[2] * y[2])
    ELSE Fin(x[2] * y[2], x[3] * y[3], x[4] * y[4])

\* left_value / right_value
FDiv(x, y) ==
    IF IsNaN(x) \/ IsNaN(y) THEN NaN
    ELSE IF IsInf(x) /\ IsInf(y) THEN NaN
    ELSE IF IsZero(x) /\ IsZero(y) THEN NaN
    ELSE IF IsInf(x) \/ IsZero(y) THEN Inf(x[2] * y[2])
    ELSE IF IsInf(y) THEN Fin(x[2] * y[2], 0, 1)
    ELSE Fin(x[2] * y[2], x[3] * y[4], x[4] * y[3])

\* largest r with r * r <= n
RECURSIVE ISqrtFrom(_, _)
ISqrtFrom(n, r) == IF (r + 1) * (r + 1) > n THEN r ELSE ISqrtFrom(n, r + 1)
ISqrt(n) == ISqrtFrom(n, 0)

\* ::sqrt(double)
FSqrt(x) ==
    IF IsNaN(x) THEN NaN
    ELSE IF IsZero(x) THEN x
    ELSE IF x[2] = -1 THEN NaN
    ELSE IF IsInf(x) THEN x
    ELSE LET rn == ISqrt(x[3])
             rd == ISqrt(x[4])
         IN  IF rn * rn = x[3] /\ rd * rd = x[4] THEN Fin(1, rn, rd)
             ELSE Fin(1, ISqrt(x[3] * x[4] * SqrtGrid * SqrtGrid), x[4] * SqrtGrid)

\* abs(double): the floating-point overload
FAbs(x) == IF IsNaN(x) THEN x ELSE <<x[1], 1, x[3], x[4]>>

\* abs(int): the argument is converted double -> int (truncation toward zero),
\* the int result is converted back to double.  Converting an infinity or a
\* NaN to int is undefined; ub is the value such a call then hands back.
IAbs(x, ub) == IF IsFin(x) THEN Fin(1, x[3] \div x[4], 1) ELSE ub

\* what abs(int) of an out-of-range conversion can hand back (any int,
\* converted to double; a large negative one on x86-64)
UBAbs == {Fin(-1, 32768, 1), Zero, One}

\* overload of ::abs the unqualified call abs(arg_value) resolves to; the
\* file includes only <iostream> and <string>, so it depends on what these
\* headers declare in the global namespace
AbsOverloads == {"int", "double"}

\* ---------------------------------------------------------------------------
\* Nodes
\* ---------------------------------------------------------------------------
PLUS == 43
MINUS == 45
DIV == 47
MUL == 42

Number(value) == [kind |-> "Number", value_ |-> value]

Variable(name, value) == [kind |-> "Variable", name_ |-> name, value_ |-> value]

\* the constructor with the tag kept in a char member
BinaryOperation_charTag(left, op, right) ==
    [kind |-> "BinaryOperation", left_ |-> left,
     op_ |-> ((op + 128) % 256) - 128, right_ |-> right]

BinaryOperation(left, op, right) ==
    [kind |-> "BinaryOperation", left_ |-> left, op_ |-> op, right_ |-> right]

FunctionCall(name, arg) == [kind |-> "FunctionCall", name_ |-> name, arg_ |-> arg]

\* char operation() const { return op_; } -- int narrowed to (signed, 8-bit)
\* char, then promoted back to int by the caller
operation(n) == ((n.op_ + 128) % 256) - 128

\* children of a node, in the order the destructor deletes them
Children(n) ==
    IF n.kind = "BinaryOperation" THEN <<n.left_, n.right_>>
    ELSE IF n.kind = "FunctionCall" THEN <<n.arg_>>
    ELSE <<>>

\* addresses reachable from a (a included) in heap h
RECURSIVE Reach(_, _)
Reach(h, a) ==
    {a} \cup UNION {Reach(h, Children(h[a])[i]) : i \in DOMAIN Children(h[a])}

\* ---------------------------------------------------------------------------
\* evaluate()
\* ---------------------------------------------------------------------------
RECURSIVE evaluate(_, _, _, _)

\* evaluate() with a guard that turns a zero divisor into the 0.0 fallback
BinaryOperation_evaluate_zeroGuard(h, a, ov, ub) ==
    LET left_value == evaluate(h, h[a].left_, ov, ub)
        right_value == evaluate(h, h[a].right_, ov, ub)
    IN  CASE h[a].op_ = PLUS -> FAdd(left_value, right_value)
          [] h[a].op_ = MINUS -> FSub(left_value, right_value)
          [] h[a].op_ = DIV ->
                 IF IsZero(right_value) THEN Zero ELSE FDiv(left_value, right_value)
          [] h[a].op_ = MUL -> FMul(left_value, right_value)
          [] OTHER -> Zero

\* evaluate() switching on operation(), the tag narrowed to char
BinaryOperation_evaluate_charSwitch(h, a, ov, ub) ==
    LET left_value == evaluate(h, h[a].left_, ov, ub)
        right_value == evaluate(h, h[a].right_, ov, ub)
    IN  CASE operation(h[a]) = PLUS -> FAdd(left_value, right_value)
          [] operation(h[a]) = MINUS -> FSub(left_value, right_value)
          [] operation(h[a]) = DIV -> FDiv(left_value, right_value)
          [] operation(h[a]) = MUL -> FMul(left_value, right_value)
          [] OTHER -> Zero

BinaryOperation_evaluate(h, a, ov, ub) ==
    LET left_value == evaluate(h, h[a].left_, ov, ub)
        right_value == evaluate(h, h[a].right_, ov, ub)
    IN  CASE h[a].op_ = PLUS -> FAdd(left_value, right_value)
          [] h[a].op_ = MINUS -> FSub(left_value, right_value)
          [] h[a].op_ = DIV -> FDiv(left_value, right_value)
          [] h[a].op_ = MUL -> FMul(left_value, right_value)
          [] OTHER -> Zero

\* evaluate() handing the argument through for a name it does not know
FunctionCall_evaluate_passThrough(h, a, ov, ub) ==
    LET arg_value == evaluate(h, h[a].arg_, ov, ub)
    IN  IF h[a].name_ = "sqrt" THEN FSqrt(arg_value)
        ELSE IF h[a].name_ = "abs"
             THEN (IF ov = "int" THEN IAbs(arg_value, ub) ELSE FAbs(arg_value))
        ELSE arg_value

FunctionCall_evaluate(h, a, ov, ub) ==
    LET arg_value == evaluate(h, h[a].arg_, ov, ub)
    IN  IF h[a].name_ = "sqrt" THEN FSqrt(arg_value)
        ELSE IF h[a].name_ = "abs"
             THEN (IF ov = "int" THEN IAbs(arg_value, ub) ELSE FAbs(arg_value))
        ELSE Zero

evaluate(h, a, ov, ub) ==
    CASE h[a].kind = "Number" -> h[a].value_
      [] h[a].kind = "Variable" -> h[a].value_
      [] h[a].kind = "BinaryOperation" -> BinaryOperation_evaluate(h, a, ov, ub)
      [] h[a].kind = "FunctionCall" -> FunctionCall_evaluate(h, a, ov, ub)

\* ---------------------------------------------------------------------------
\* CopySyntaxTree: each method returns the heap after its allocations and the
\* address of the node it returns
\* ---------------------------------------------------------------------------
RECURSIVE transform(_, _)

\* transformNumber handing back the source node instead of a new one
transformNumber_shared(h, a) == [heap |-> h, root |-> a]

transformNumber(h, a) ==
    [heap |-> Append(h, Number(h[a].value_)), root |-> Len(h) + 1]

transformBinaryOperation(h, a) ==
    LET left == transform(h, h[a].left_)
        right == transform(left.heap, h[a].right_)
    IN  [heap |-> Append(right.heap,
                         BinaryOperation(left.root, operation(h[a]), right.root)),
         root |-> Len(right.heap) + 1]

transformFunctionCall(h, a) ==
    LET arg == transform(h, h[a].arg_)
    IN  [heap |-> Append(arg.heap, FunctionCall(h[a].name_, arg.root)),
         root |-> Len(arg.heap) + 1]

transformVariable(h, a) ==
    [heap |-> Append(h, Variable(h[a].name_, h[a].value_)), root |-> Len(h) + 1]

transform(h, a) ==
    CASE h[a].kind = "Number" -> transformNumber(h, a)
      [] h[a].kind = "Variable" -> transformVariable(h, a)
      [] h[a].kind = "BinaryOperation" -> transformBinaryOperation(h, a)
      [] h[a].kind = "FunctionCall" -> transformFunctionCall(h, a)

\* ---------------------------------------------------------------------------
\* delete: the virtual destructor runs (deleting the children), then the
\* node's memory is released.  st = [released, crashed].  Deleting a node that
\* is already released is undefined: the process either dies there
\* (abort = TRUE) or runs the destructor over the stale node once more.
\* ---------------------------------------------------------------------------
RECURSIVE Delete(_, _, _, _)

\* ~BinaryOperation() { delete left_; delete right_; }
BinaryOperation_dtor(h, st, a, abort) ==
    Delete(h, Delete(h, st, h[a].left_, abort), h[a].right_, abort)

\* ~FunctionCall() { delete arg_; }
FunctionCall_dtor(h, st, a, abort) == Delete(h, st, h[a].arg_, abort)

Delete(h, st, a, abort) ==
    IF st.crashed THEN st
    ELSE IF st.released[a] > 0 /\ abort THEN [st EXCEPT !.crashed = TRUE]
    ELSE LET after ==
                 CASE h[a].kind = "BinaryOperation" -> BinaryOperation_dtor(h, st, a, abort)
                   [] h[a].kind = "FunctionCall" -> FunctionCall_dtor(h, st, a, abort)
                   [] OTHER -> st
         IN  IF after.crashed THEN after
             ELSE [after EXCEPT !.released[a] = @ + 1]

\* ---------------------------------------------------------------------------
\* The caller, main(): builds nodes bottom-up through the public constructors,
\* evaluates a tree, copies it with CopySyntaxTree, evaluates the copy and
\* deletes both trees.  The tree it builds and the order of the two deletes
\* are left open.
\* ---------------------------------------------------------------------------
VARIABLES
    heap,         \* address -> node, for every node ever allocated
    released,     \* address -> number of times the node's memory was released
    crashed,      \* the process died in a delete of a released node
    pc,           \* position of the caller
    root,         \* callAbs: the tree the caller works on (0: not chosen yet)
    copies,       \* newExpr: the transform call made (source, returned root)
    result,       \* result: <<node, value>> of the evaluate() call on the tree
    newResult,    \* newResult: <<node, value>> of the evaluate() call on the copy
    absOverload   \* the overload of ::abs this build calls

vars == <<heap, released, crashed, pc, root, copies, result, newResult, absOverload>>

\* what main() passes to the constructors (its Variable is bound to One)
Values == {Fin(-1, 5, 2)}
VarNames == {"var"}
FuncNames == {"sqrt", "abs", "bogus"}
OpTags == {PLUS, 37, 299}
KnownOps == {PLUS, MINUS, DIV, MUL}

Addrs == DOMAIN heap
Live(a) == released[a] = 0
AllLive(a) == \A x \in Reach(heap, a) : Live(x)
\* a pointer the caller owns: live, and no live node has it as a child
Owned(a) ==
    /\ Live(a)
    /\ \A p \in Addrs : Live(p) => \A i \in DOMAIN Children(heap[p]) : Children(heap[p])[i] # a

Init ==
    /\ heap = <<>>
    /\ released = <<>>
    /\ crashed = FALSE
    /\ pc = "build"
    /\ root = 0
    /\ copies = <<>>
    /\ result = <<>>
    /\ newResult = <<>>
    /\ absOverload \in AbsOverloads

\* new T(...)
Alloc(node) ==
    /\ pc = "build"
    /\ Len(heap) < MaxNodes
    /\ heap' = Append(heap, node)
    /\ released' = Append(released, 0)
    /\ UNCHANGED <<crashed, pc, root, copies, result, newResult, absOverload>>

NewNumber(value) == Alloc(Number(value))

NewVariable(name, value) == Alloc(Variable(name, value))

NewBinaryOperation(left, op, right) == Alloc(BinaryOperation(left, op, right))

NewFunctionCall(name, arg) == Alloc(FunctionCall(name, arg))

\* evaluate() that folds the node it was called on into its value
Evaluate_folding(r) ==
    /\ pc = "build"
    /\ Owned(r)
    /\ root' = r
    /\ \E ub \in UBAbs :
           /\ result' = <<r, evaluate(heap, r, absOverload, ub)>>
           /\ heap' = [heap EXCEPT ![r] = Number(evaluate(heap, r, absOverload, ub))]
    /\ pc' = "evaluated"
    /\ UNCHANGED <<released, crashed, copies, newResult, absOverload>>

\* double result = callAbs->evaluate();
Evaluate(r) ==
    /\ pc = "build"
    /\ Owned(r)
    /\ root' = r
    /\ \E ub \in UBAbs : result' = <<r, evaluate(heap, r, absOverload, ub)>>
    /\ pc' = "evaluated"
    /\ UNCHANGED <<heap, released, crashed, copies, newResult, absOverload>>

\* Expression* newExpr = callAbs->transform(&CST);
Transform ==
    /\ pc = "evaluated"
    /\ LET t == transform(heap, root)
       IN  /\ heap' = t.heap
           /\ released' = released \o [i \in 1..(Len(t.heap) - Len(heap)) |-> 0]
           /\ copies' = <<[src |-> root, dst |-> t.root, base |-> Len(heap)]>>
    /\ pc' = "copied"
    /\ UNCHANGED <<crashed, root, result, newResult, absOverload>>

\* double newResult = newExpr->evaluate();
EvaluateCopy ==
    /\ pc = "copied"
    /\ \E ub \in UBAbs :
           newResult' = <<copies[1].dst, evaluate(heap, copies[1].dst, absOverload, ub)>>
    /\ pc' = "delete"
    /\ UNCHANGED <<heap, released, crashed, root, copies, result, absOverload>>

\* delete callAbs;  /  delete newExpr;
DeleteRoot(r, abort) ==
    /\ pc = "delete"
    /\ ~crashed
    /\ r \in {root, copies[1].dst}
    /\ Live(r)
    /\ LET st == Delete(heap, [released |-> released, crashed |-> FALSE], r, abort)
       IN  /\ released' = st.released
           /\ crashed' = st.crashed
    /\ UNCHANGED <<heap, pc, root, copies, result, newResult, absOverload>>

Next ==
    \/ \E v \in Values : NewNumber(v)
    \/ \E n \in VarNames : NewVariable(n, One)
    \/ \E l \in Addrs, r \in Addrs, op \in OpTags : NewBinaryOperation(l, op, r)
    \/ \E n \in FuncNames, a \in Addrs : NewFunctionCall(n, a)
    \/ \E r \in Addrs : Evaluate(r)
    \/ Transform
    \/ EvaluateCopy
    \/ \E r \in Addrs, abort \in BOOLEAN : DeleteRoot(r, abort)

Spec == Init /\ [][Next]_vars

\* ---------------------------------------------------------------------------
\* Evaluation scenarios: a caller that has built one small tree and calls
\* evaluate() on its nodes.
\* ---------------------------------------------------------------------------
Half(k) == IF k < 0 THEN Fin(-1, -k, 2) ELSE Fin(1, k, 2)
EvalValues ==
    {Half(k) : k \in -MaxHalves..MaxHalves} \cup {Fin(-1, 0, 1), Inf(1), Inf(-1), NaN}
EvalOpTags == KnownOps \cup {0, 37, 299, -1}
EvalFuncNames == {"sqrt", "abs", "bogus", "", "SQRT"}

InitEval ==
    /\ \/ \E a \in EvalValues, b \in EvalValues, op \in EvalOpTags, n \in EvalFuncNames :
              heap = <<Number(a), Number(b), BinaryOperation(1, op, 2), FunctionCall(n, 3)>>
       \/ \E x \in EvalValues, n \in EvalFuncNames :
              heap = <<Number(x), FunctionCall(n, 1)>>
    /\ released = [i \in DOMAIN heap |-> 0]
    /\ crashed = FALSE
    /\ pc = "eval"
    /\ root = 0
    /\ copies = <<>>
    /\ result = <<>>
    /\ newResult = <<>>
    /\ absOverload \in AbsOverloads

\* double result = node->evaluate();
EvaluateNode(a) ==
    /\ pc = "eval"
    /\ \E ub \in UBAbs : result' = <<a, evaluate(heap, a, absOverload, ub)>>
    /\ UNCHANGED <<heap, released, crashed, pc, root, copies, newResult, absOverload>>

NextEval == \E a \in Addrs : EvaluateNode(a)

SpecEval == InitEval /\ [][NextEval]_vars

\* ---------------------------------------------------------------------------
\* Properties
\* ---------------------------------------------------------------------------
Src == copies[1].src
Dst == copies[1].dst
IsComposite(a) == heap[a].kind \in {"BinaryOperation", "FunctionCall"}
\* value of a finite double as a signed numerator over x[4]
SNum(x) == x[2] * x[3]

\* same variant and same fields at every position of the trees at a and b
RECURSIVE SameShape(_, _, _)
SameShape(h, a, b) ==
    /\ h[a].kind = h[b].kind
    /\ CASE h[a].kind = "Number" -> h[a].value_ = h[b].value_
         [] h[a].kind = "Variable" ->
                h[a].name_ = h[b].name_ /\ h[a].value_ = h[b].value_
         [] h[a].kind = "BinaryOperation" ->
                /\ h[a].op_ = h[b].op_
                /\ SameShape(h, h[a].left_, h[b].left_)
                /\ SameShape(h, h[a].right_, h[b].right_)
         [] h[a].kind = "FunctionCall" ->
                /\ h[a].name_ = h[b].name_
                /\ SameShape(h, h[a].arg_, h[b].arg_)

\* C1: the copy returned by transform(CopySyntaxTree) evaluates to the same
\* value as the tree it was made from: newResult == result in main().
C1_CopyEvaluatesEqual == newResult # <<>> => newResult[2] = result[2]

\* C2: the copy has the same shape as the source: same variant, operator tag,
\* function name, variable name and leaf values at every position.
C2_CopySameShape == copies # <<>> => SameShape(heap, Src, Dst)

\* the nodes of the tree at r are left as they are by the step
Untouched(r) ==
    /\ \A y \in Reach(heap, r) : heap'[y] = heap[y] /\ released'[y] = released[y]
    /\ \A ub \in UBAbs :
           evaluate(heap', r, absOverload, ub) = evaluate(heap, r, absOverload, ub)

\* C3: every node of the copy is allocated during the transform call and none
\* is a node of the source; deleting the source leaves every node of the copy
\* live and its value unchanged, and deleting the copy leaves the source so.
C3_CopyIndependent ==
    [][/\ Transform =>
              /\ Reach(heap', copies'[1].dst) \subseteq (Len(heap) + 1)..Len(heap')
              /\ Reach(heap', copies'[1].dst) \cap Reach(heap', root) = {}
       /\ \A abort \in BOOLEAN :
              /\ DeleteRoot(root, abort) => Untouched(Dst)
              /\ DeleteRoot(Dst, abort) => Untouched(root)]_vars

C3_Witness ==
    /\ pc = "delete"
    /\ ~crashed
    /\ IsComposite(root)
    /\ \A y \in Reach(heap, root) : released[y] = 1
    /\ AllLive(Dst)

\* C4 as stated: every BinaryOperation node holds one of the four tags
\* add, subtract, multiply, divide.
C4_TagIsKnown ==
    \A a \in Addrs : heap[a].kind = "BinaryOperation" => heap[a].op_ \in KnownOps

\* C4 amended: the constructor stores the int tag it is given, whatever it is,
\* and the node keeps it: no tag is rejected, and a tag outside the four is
\* stored as it is.
C4_TagIsCtorArgument ==
    [][/\ \A l \in Addrs, r \in Addrs, op \in OpTags :
              NewBinaryOperation(l, op, r) =>
                  /\ heap'[Len(heap) + 1].kind = "BinaryOperation"
                  /\ heap'[Len(heap) + 1].op_ = op
       /\ \A a \in Addrs : heap'[a] = heap[a]]_vars

C4_Witness ==
    \E a \in Addrs :
        /\ heap[a].kind = "BinaryOperation"
        /\ heap[a].op_ = 299
        /\ pc = "delete"

\* a + b, a - b, a * b, a / b for finite a and b, stated over the rationals
\* and the IEEE rules for a zero divisor
Arith(op, a, b, v) ==
    CASE op = PLUS ->
             IsFin(v) /\ SNum(v) * a[4] * b[4] = (SNum(a) * b[4] + SNum(b) * a[4]) * v[4]
      [] op = MINUS ->
             IsFin(v) /\ SNum(v) * a[4] * b[4] = (SNum(a) * b[4] - SNum(b) * a[4]) * v[4]
      [] op = MUL ->
             IsFin(v) /\ SNum(v) * a[4] * b[4] = SNum(a) * SNum(b) * v[4]
      [] op = DIV ->
             IF ~IsZero(b) THEN IsFin(v) /\ SNum(v) * SNum(b) * a[4] = SNum(a) * b[4] * v[4]
             ELSE IF IsZero(a) THEN IsNaN(v)
             ELSE v = Inf(a[2] * b[2])

\* C5: BinaryOperation(Number(a), op, Number(b)).evaluate() is a + b, a - b,
\* a * b, a / b for finite a, b; with b == 0 the quotient is the IEEE value
\* (an infinity, NaN for 0/0), not the 0.0 fallback.
C5_BinaryArithmetic ==
    result # <<>> =>
        LET n == heap[result[1]]
        IN  (/\ n.kind = "BinaryOperation"
             /\ n.op_ \in KnownOps
             /\ heap[n.left_].kind = "Number" /\ IsFin(heap[n.left_].value_)
             /\ heap[n.right_].kind = "Number" /\ IsFin(heap[n.right_].value_))
            => Arith(n.op_, heap[n.left_].value_, heap[n.right_].value_, result[2])

C5_Witness ==
    /\ result = <<3, Inf(1)>>
    /\ heap[3] = BinaryOperation(1, DIV, 2)
    /\ heap[1] = Number(One)
    /\ heap[2] = Number(Zero)

\* C6: FunctionCall("sqrt", Number(x)).evaluate() is sqrt(x) for x >= 0 and
\* FunctionCall("abs", Number(x)).evaluate() is |x| for every x.
C6_SqrtAbs ==
    result # <<>> =>
        LET n == heap[result[1]]
            v == result[2]
        IN  (n.kind = "FunctionCall" /\ heap[n.arg_].kind = "Number"
               /\ ~IsNaN(heap[n.arg_].value_)) =>
                LET x == heap[n.arg_].value_
                IN  /\ (n.name_ = "sqrt" /\ (x[2] = 1 \/ IsZero(x))) => v = FSqrt(x)
                    /\ n.name_ = "abs" =>
                           /\ v[1] = x[1]
                           /\ v[3] * x[4] = x[3] * v[4]
                           /\ (v[2] = 1 \/ IsZero(v))

\* C7: a FunctionCall whose name is neither "sqrt" nor "abs" evaluates to
\* 0.0 whatever its argument evaluates to, and the process goes on.
C7_UnknownFunctionZero ==
    result # <<>> =>
        LET n == heap[result[1]]
        IN  (n.kind = "FunctionCall" /\ n.name_ \notin {"sqrt", "abs"})
            => (result[2] = Zero /\ ~crashed)

C7_Witness ==
    /\ result = <<4, Zero>>
    /\ heap[4].name_ = "bogus"
    /\ \A ub \in UBAbs : IsInf(evaluate(heap, 3, absOverload, ub))

\* C8: a BinaryOperation whose tag is none of '+', '-', '*', '/' evaluates to
\* 0.0 whatever its children evaluate to, and the process goes on.
C8_UnknownOperatorZero ==
    result # <<>> =>
        LET n == heap[result[1]]
        IN  (n.kind = "BinaryOperation" /\ n.op_ \notin KnownOps)
            => (result[2] = Zero /\ ~crashed)

C8_Witness ==
    /\ result = <<3, Zero>>
    /\ heap[3] = BinaryOperation(1, 299, 2)
    /\ heap[1] = Number(Inf(1))
    /\ heap[2] = Number(One)

\* C9: evaluate() and transform() leave every node as it was: same variant,
\* fields and children, same liveness, and the same value on evaluation.
C9_NoMutation ==
    [][(Transform \/ EvaluateCopy \/ \E r \in Addrs : Evaluate(r)) =>
           \A a \in Addrs :
               /\ heap'[a] = heap[a]
               /\ released'[a] = released[a]
               /\ \A ub \in UBAbs :
                      evaluate(heap', a, absOverload, ub) = evaluate(heap, a, absOverload, ub)]_vars

C9_Witness ==
    /\ pc = "delete"
    /\ IsComposite(root)
    /\ result # <<>>
    /\ newResult # <<>>
    /\ AllLive(root)

\* C10: once a root has been deleted, every node reachable from it has been
\* released exactly once, and the process is still running.
C10_ReleasedExactlyOnce ==
    /\ ~crashed
    /\ \A r \in Addrs :
           ((r = root \/ (copies # <<>> /\ r = Dst)) /\ released[r] > 0) =>
               \A a \in Reach(heap, r) : released[a] = 1

====
